---------------------------- MODULE Spec2Model ----------------------------
(***************************************************************************)
(* Event aggregation pipeline of CelestiaTrack (home/views.py and          *)
(* home/utils.py): the primary celestial-events adapter, the twilight      *)
(* adapter, the aggregator fetch_all_events with its dedupe / escalation / *)
(* sort, the time normalizer _parse_iso, and the two callers events_api    *)
(* and events_list.  Besides the aggregation (Spec) there are further      *)
(* specifications over the same variables: the aggregation against a       *)
(* provider mocked as in the repository's tests (SpecMocked), against a    *)
(* provider out of order (SpecOutage), over payloads of other shapes       *)
(* (SpecShapes) and beside the AMS adapters (SpecAms); the adapters and    *)
(* helpers of utils.py called on their own (SpecAdapters);                 *)
(* fetch_all_events as a function of the order of its queries (SpecOrder); *)
(* the visibility helpers (SpecVisibility); and the favorite toggles of    *)
(* views.py, served one at a time (SpecFavorites) and side by side         *)
(* (SpecConcurrent).                                                       *)
(*                                                                         *)
(* Python values are modelled as records tagged by a field k, so that any  *)
(* two of them can be compared.  A timestamp string is a record            *)
(* Iso(wall, sfx): wall is the wall-clock reading in hours and sfx the     *)
(* literal offset suffix of the string ("Z", "+00:00", "+01:00" or none).  *)
(***************************************************************************)
EXTENDS Integers, Sequences, FiniteSets, TLC

VARIABLES
    pc,           \* position of the request being served
    idx,          \* fetch_all_events: roster bodies already processed
    events_data,  \* fetch_all_events: the accumulating, then returned, list
    seen,         \* fetch_all_events: set of dedupe keys
    successes,    \* fetch_all_events: counter
    failures,     \* fetch_all_events: counter
    outcome,      \* how the call of fetch_all_events ended, "none" before
    response,     \* the HTTP response of the view
    rowsLeft,     \* rows the primary provider may still supply
    log,          \* history: the fate of every provider row handled
    nonEmpty,     \* history: bodies whose adapter call returned rows
    raisedBodies, \* history: bodies whose processing raised
    twilight,     \* history: the list the twilight adapter returned
    calls,        \* history: the adapter invocations of fetch_all_events
    mock,         \* the rows a mocked provider answers every body query with
    call,         \* an adapter or helper called on its own, with its result
    favorites,        \* table home_favorite: rows in order of creation
    event_favorites,  \* table home_eventfavorite: rows in order of creation
    posts,            \* history: the toggle requests served, latest last
    inflight          \* toggle requests being served side by side

vars == <<pc, idx, events_data, seen, successes, failures, outcome, response,
          rowsLeft, log, nonEmpty, raisedBodies, twilight, calls, mock, call,
          favorites, event_favorites, posts, inflight>>

\* What a request of the events pages never touches.
elsewhere == <<mock, call, favorites, event_favorites, posts, inflight>>

-----------------------------------------------------------------------------
(* Bounds of the model *)

\* Rows a mocked provider answers every body query with.
MaxMock == 3

\* Toggle requests served in one behaviour.
MaxPosts == 3

\* Readings the aurora feed holds behind its header row.
MaxReadings == 2

\* Rows the primary provider supplies, in total, during one aggregation.
MaxRows == 2

-----------------------------------------------------------------------------
(* Python values *)

None == [k |-> "None"]
EmptyStr == [k |-> "str", text |-> ""]
NotADate == [k |-> "str", text |-> "not-a-date"]
Iso(wall, sfx) == [k |-> "iso", wall |-> wall, sfx |-> sfx]
EmptyDict == [k |-> "dict"]
\* A float, in tenths.
Float(tenths) == [k |-> "float", tenths |-> tenths]

\* A number where a string is expected.
Number(n) == [k |-> "int", n |-> n]

\* Python truthiness of an optional string.
Truthy(v) == v # None /\ v # EmptyStr

\* datetime.max.replace(tzinfo=timezone.utc): the wall reading (in hours) of
\* the last representable instant.
MaxWall == 99

\* A datetime: wall reading, utc offset in hours, and whether it carries a
\* tzinfo at all.
Datetime(wall, off, aware) ==
    [k |-> "datetime", wall |-> wall, off |-> off, aware |-> aware]

DatetimeMax == Datetime(MaxWall, 0, TRUE)

\* Aware datetimes compare by instant: wall reading minus utc offset.
Instant(dt) == dt.wall - dt.off

\* dt_str.replace("Z", "+00:00")
ReplaceZ(s) == IF s.k = "iso" /\ s.sfx = "Z" THEN Iso(s.wall, "+00:00") ELSE s

\* datetime.fromisoformat: [raised, value]; ValueError on a string that is no
\* ISO timestamp.
FromIsoformat(s) ==
    IF s.k # "iso" THEN [raised |-> TRUE, value |-> None]
    ELSE [raised |-> FALSE,
          value |-> CASE s.sfx = "+00:00" -> Datetime(s.wall, 0, TRUE)
                      [] s.sfx = "+01:00" -> Datetime(s.wall, 1, TRUE)
                      [] OTHER -> Datetime(s.wall, 0, FALSE)]

\* Variant without `dt.replace(tzinfo=timezone.utc)`: a string without an
\* offset gives a naive datetime.
ParseIsoNaive(dt_str) ==
    IF ~Truthy(dt_str) THEN None
    ELSE LET r == FromIsoformat(ReplaceZ(dt_str))
         IN IF r.raised THEN None ELSE r.value

\* views._parse_iso
ParseIso(dt_str) ==
    IF ~Truthy(dt_str) THEN None
    ELSE LET r == FromIsoformat(ReplaceZ(dt_str))
         IN IF r.raised THEN None
            ELSE IF ~r.value.aware THEN Datetime(r.value.wall, 0, TRUE)
            ELSE r.value

\* _parse_iso tests `if not dt_str` and then calls dt_str.replace("Z", ...)
\* ahead of its try block: a truthy value that is no string has no such
\* method, and the AttributeError leaves _parse_iso.
ReplaceRaises(dt_str) == Truthy(dt_str) /\ dt_str.k \notin {"iso", "str"}

\* The tail of _earliest_peak_from_events: isoformat of an aware datetime,
\* written with a trailing "Z" when its offset is that of UTC.
IsoformatKeepZ(dt) ==
    IF dt.off = 0 THEN Iso(dt.wall, "Z") ELSE Iso(dt.wall, "+01:00")

-----------------------------------------------------------------------------
(* Body names *)

celestial_bodies ==
    <<"sun", "moon", "mercury", "venus", "mars", "jupiter", "saturn",
      "uranus", "neptune", "pluto">>

\* str.capitalize() on the roster names.
Capitalize(body) ==
    CASE body = "sun" -> "Sun"
      [] body = "moon" -> "Moon"
      [] body = "mercury" -> "Mercury"
      [] body = "venus" -> "Venus"
      [] body = "mars" -> "Mars"
      [] body = "jupiter" -> "Jupiter"
      [] body = "saturn" -> "Saturn"
      [] body = "uranus" -> "Uranus"
      [] body = "neptune" -> "Neptune"
      [] body = "pluto" -> "Pluto"

\* Python's str ordering (by code point) on the body names that can occur:
\* the names in ascending order.
NameOrder ==
    <<"", "Body", "Jupiter", "Mars", "Mercury", "Moon", "Neptune", "Pluto",
      "Saturn", "Sun", "Uranus", "Venus">>

NameRank(name) == CHOOSE i \in 1..Len(NameOrder) : NameOrder[i] = name

StrLess(a, b) == NameRank(a) < NameRank(b)

\* A provider body name is a sequence of pieces, each a word or a blank " ".
\* str.split(): the words.
Split(name) == SelectSeq(name, LAMBDA piece : piece # " ")

-----------------------------------------------------------------------------
(* Auth helpers and requests *)

\* An HTTP GET as the provider sees it: the provider, and the credential it
\* carries ("none" when it carries none).
Request(provider, headers) ==
    [to |-> provider,
     auth |-> IF headers = EmptyDict THEN "none" ELSE headers.Authorization]

\* utils.get_auth_header: {} when the app id or the app secret is not set.
get_auth_header(app_id, app_secret) ==
    IF ~app_id \/ ~app_secret THEN EmptyDict
    ELSE [k |-> "dict", Authorization |-> "Basic"]

\* Variant that returns {} instead of raising when the key is not set.
RadiantDriftHeaderOrEmpty(api_key) ==
    [raised |-> FALSE,
     value |-> IF api_key
               THEN [k |-> "dict", Authorization |-> "RadiantDriftAuth"]
               ELSE EmptyDict]

\* utils.get_radiant_drift_auth_header: [raised, value]; ValueError when the
\* key is not set.
get_radiant_drift_auth_header(api_key) ==
    IF ~api_key THEN [raised |-> TRUE, value |-> EmptyDict]
    ELSE [raised |-> FALSE,
          value |-> [k |-> "dict", Authorization |-> "RadiantDriftAuth"]]

-----------------------------------------------------------------------------
(* Provider payloads *)

SubEvent(type, date) ==
    [type |-> type, eventHighlights |-> [peak |-> [date |-> date]]]

Row(name, events, transit, rise, set, extraInfo) ==
    [body |-> [name |-> name], events |-> events, transit |-> transit,
     rise |-> rise, set |-> set, extraInfo |-> extraInfo]

Dated(ts) == [date |-> ts]

\* The rows the primary provider can answer with.
RowUniverse ==
    { Row(<<"Moon">>, <<SubEvent("eclipse", Iso(10, "Z"))>>,
          None, None, None, None),
      Row(<<"Moon">>, <<SubEvent("E", Iso(10, "+00:00"))>>,
          Dated(Iso(12, "Z")), Dated(Iso(5, "Z")), Dated(Iso(15, "Z")),
          [obscuration |-> Float(5)]),
      Row(<<"Sun", " ", "1">>,
          <<SubEvent("X", Iso(12, "Z")), SubEvent("E", Iso(11, "+01:00"))>>,
          None, None, None, None),
      Row(<<>>, <<>>, Dated(Iso(7, "")), None, None, None),
      Row(<<"Moon">>, <<SubEvent("E", None)>>, None, None, None, None),
      Row(<<"Moon">>, <<SubEvent("E", NotADate)>>, None, None, None, None),
      Row(<<"Moon">>, <<>>, Dated(NotADate), None, None, None) }

\* Sequences of rows of length at most n.
RowSeqs(n) == UNION { [1..m -> RowUniverse] : m \in 0..n }

HttpStatuses == {200, 401, 403, 404, 500}

\* What one GET of the primary provider can come to: an HTTP response (a 200
\* carries a body: JSON with data.rows, JSON without data or rows, or no JSON
\* at all), or a connection-level RequestException.
PrimaryUpstream(n) ==
    { [kind |-> "response", status |-> st, json |-> "absent", rows |-> <<>>] :
          st \in HttpStatuses }
    \cup { [kind |-> "response", status |-> 200, json |-> "rows", rows |-> rs] :
               rs \in RowSeqs(n) }
    \cup { [kind |-> "response", status |-> 200, json |-> "invalid",
            rows |-> <<>>],
           [kind |-> "connection_error", status |-> 0, json |-> "absent",
            rows |-> <<>>] }

\* Variant that re-raises every HTTP error status but 404.
RaisesOnHttpError(up) ==
    IF up.kind = "response" /\ up.status = 200 /\ up.json = "rows"
    THEN [raised |-> FALSE, value |-> up.rows]
    ELSE [raised |-> up.kind = "response" /\ up.status \notin {200, 404},
          value |-> <<>>]

\* Variant that lets a connection-level RequestException through.
RaisesOnConnectionError(up) ==
    IF up.kind = "response" /\ up.status = 200 /\ up.json = "rows"
    THEN [raised |-> FALSE, value |-> up.rows]
    ELSE [raised |-> up.kind = "connection_error"
                     \/ (up.kind = "response" /\ up.status = 403),
          value |-> <<>>]

\* Variant that re-raises whatever is neither rows nor a 404.
RaisesOnTransientError(up) ==
    IF up.kind = "response" /\ up.status = 200 /\ up.json # "invalid"
    THEN [raised |-> FALSE, value |-> up.rows]
    ELSE [raised |-> up.kind = "connection_error" \/ up.status # 404,
          value |-> <<>>]

\* utils.fetch_astronomical_events: [raised, value].
fetch_astronomical_events(up) ==
    IF up.kind = "connection_error" THEN [raised |-> FALSE, value |-> <<>>]
    ELSE IF up.status = 200
    THEN IF up.json = "invalid" THEN [raised |-> FALSE, value |-> <<>>]
         ELSE IF up.json = "absent" THEN [raised |-> FALSE, value |-> <<>>]
         ELSE [raised |-> FALSE, value |-> up.rows]
    ELSE IF up.status = 404 THEN [raised |-> FALSE, value |-> <<>>]
    ELSE IF up.status = 403 THEN [raised |-> TRUE, value |-> <<>>]
    ELSE [raised |-> FALSE, value |-> <<>>]

-----------------------------------------------------------------------------
(* views._earliest_peak_from_events *)

\* ((ev.get("eventHighlights") or {}).get("peak") or {}).get("date")
PeakDate(ev) ==
    IF ev.eventHighlights = None THEN None
    ELSE IF ev.eventHighlights.peak = None THEN None
    ELSE ev.eventHighlights.peak.date

\* The list `peaks`: _parse_iso of every truthy sub-event peak, in order.
RECURSIVE Peaks(_)
Peaks(events) ==
    IF events = <<>> THEN <<>>
    ELSE LET peak == PeakDate(Head(events))
         IN IF Truthy(peak) THEN <<ParseIso(peak)>> \o Peaks(Tail(events))
            ELSE Peaks(Tail(events))

\* Python's min() over datetimes: the first element no later element is
\* strictly less than.
RECURSIVE MinFirst(_)
MinFirst(peaks) ==
    IF Len(peaks) = 1 THEN peaks[1]
    ELSE LET rest == MinFirst(Tail(peaks))
         IN IF Instant(rest) < Instant(peaks[1]) THEN rest ELSE peaks[1]

\* [raised, value]: the earliest peak as a string, None when there is none;
\* raises when a peak did not parse (min() over None, or None.isoformat()).
EarliestPeak(events) ==
    LET peaks == Peaks(events)
    IN IF events = <<>> \/ peaks = <<>> THEN [raised |-> FALSE, value |-> None]
       ELSE IF \E i \in 1..Len(peaks) : peaks[i] = None
       THEN [raised |-> TRUE, value |-> None]
       ELSE [raised |-> FALSE, value |-> IsoformatKeepZ(MinFirst(peaks))]

-----------------------------------------------------------------------------
(* views.fetch_all_events: the body of the row loop *)

\* name.split()[0] if name else body.capitalize(): [raised, value]; IndexError
\* when the name holds blanks only.
BaseName(name, body) ==
    IF name = <<>> THEN [raised |-> FALSE, value |-> Capitalize(body)]
    ELSE IF Split(name) = <<>> THEN [raised |-> TRUE, value |-> ""]
    ELSE [raised |-> FALSE, value |-> Split(name)[1]]

\* row.get(f, {}).get("date") if row.get(f) else None
DateOf(field) == IF field = None THEN None ELSE field.date

\* The peak of a row whose sub-events carry none: the transit date, or None
\* when the row is to be skipped.
TransitFallback(row) ==
    IF row.transit # None /\ Truthy(row.transit.date) THEN row.transit.date
    ELSE None

\* The dict appended to events_data for a row.
MakeEvent(row, base_name, peak_date) ==
    [body |-> base_name,
     type |-> IF row.events # <<>> THEN row.events[1].type ELSE "rise-set",
     peak |-> peak_date,
     rise |-> DateOf(row.rise),
     set |-> DateOf(row.set),
     transit |-> DateOf(row.transit),
     obscuration |-> IF row.extraInfo = None THEN None
                     ELSE row.extraInfo.obscuration,
     highlights |-> IF row.events # <<>>
                       /\ row.events[1].eventHighlights # None
                    THEN row.events[1].eventHighlights
                    ELSE EmptyDict]

DedupKey(event) == <<event.peak, event.body>>

\* Variant without the seen-set test: every row is emitted.
NeverDuplicate(key, seenKeys) == FALSE

\* if dedup_key in seen
IsDuplicate(key, seenKeys) == key \in seenKeys

\* Variant in which a later row with a key already seen takes the place of
\* the first one.
ReplaceFirst(list, event) ==
    [i \in 1..Len(list) |->
        IF "transit" \in DOMAIN list[i]
           /\ <<list[i].peak, list[i].body>> = <<event.peak, event.body>>
        THEN event ELSE list[i]]

\* `continue` on a duplicate: events_data stays as it is.
OnDuplicate(list, event) == list

\* Variant without the `else: continue`: a row without a peak is emitted.
SkipsNothing(peak_date) == FALSE

\* Neither a sub-event peak nor a transit date: the row is skipped.
SkipsRow(peak_date) == ~Truthy(peak_date)

\* One iteration of `for row in rows`, on the loop's state
\* st = [events_data, seen, log, raised].  The log entry names the row, its
\* fate and, when it got as far as a dedupe key, the event built from it.
ProcessRow(st, row, body) ==
    LET name == BaseName(row.body.name, body)
        ep == EarliestPeak(row.events)
        peak_date == IF Truthy(ep.value) THEN ep.value
                     ELSE TransitFallback(row)
        event == MakeEvent(row, name.value, peak_date)
    IN IF name.raised \/ ep.raised
       THEN [st EXCEPT !.raised = TRUE,
                       !.log = Append(@, [fate |-> "raised", row |-> row,
                                              event |-> None])]
       ELSE IF SkipsRow(peak_date)
       THEN [st EXCEPT !.log = Append(@, [fate |-> "discarded", row |-> row,
                                          event |-> None])]
       ELSE IF IsDuplicate(DedupKey(event), st.seen)
       THEN [st EXCEPT !.events_data = OnDuplicate(@, event),
                       !.log = Append(@, [fate |-> "duplicate", row |-> row,
                                          event |-> event])]
       ELSE [st EXCEPT !.seen = @ \cup {DedupKey(event)},
                       !.events_data = Append(@, event),
                       !.log = Append(@, [fate |-> "emitted", row |-> row,
                                          event |-> event])]

\* `for row in rows`: the rows in order, up to the first one that raises.
RECURSIVE ProcessRows(_, _, _)
ProcessRows(st, rows, body) ==
    IF rows = <<>> \/ st.raised THEN st
    ELSE ProcessRows(ProcessRow(st, Head(rows), body), Tail(rows), body)

-----------------------------------------------------------------------------
(* utils.fetch_twilight_events *)

\* Variant that leaves the peak of the event unset.
TwilightEventWithoutPeak(type, ts, description) ==
    [body |-> "Sun", type |-> type, peak |-> None, rise |-> ts, set |-> None,
     obscuration |-> None,
     highlights |-> [source |-> "open_meteo", category |-> "twilight",
                     description |-> description]]

TwilightEvent(type, ts, description) ==
    [body |-> "Sun", type |-> type, peak |-> ts, rise |-> ts, set |-> None,
     obscuration |-> None,
     highlights |-> [source |-> "open_meteo", category |-> "twilight",
                     description |-> description]]

\* The `daily` object of an Open-Meteo answer: parallel lists.
DailyUniverse ==
    { [time |-> t, sunrise |-> sr, sunset |-> ss] :
        t \in {<<>>, <<"2025-12-01">>},
        sr \in {<<None>>, <<Iso(7, "")>>},
        ss \in {<<>>, <<Iso(19, "")>>} }

NoDaily == [time |-> <<>>, sunrise |-> <<>>, sunset |-> <<>>]

TwilightUpstream ==
    { [kind |-> "response", status |-> 200, daily |-> d] : d \in DailyUniverse }
    \cup { [kind |-> "response", status |-> st, daily |-> NoDaily] :
               st \in {400, 403} }
    \cup { [kind |-> "connection_error", status |-> 0, daily |-> NoDaily] }

\* `daily` objects that carry astronomical-twilight lists besides, for one
\* day and for two.
DailyWithTwilight ==
    { [time |-> <<"2025-12-01">>, sunrise |-> sr, sunset |-> ss,
       astronomical_twilight_start |-> <<Iso(5, "")>>,
       astronomical_twilight_end |-> <<Iso(21, "")>>] :
        sr \in {<<>>, <<Iso(7, "")>>}, ss \in {<<>>, <<Iso(19, "")>>} }
    \cup
    { [time |-> <<"2025-12-01", "2025-12-02">>, sunrise |-> sr, sunset |-> ss,
       astronomical_twilight_start |-> <<Iso(5, ""), Iso(5, "")>>,
       astronomical_twilight_end |-> <<Iso(21, ""), Iso(21, "")>>] :
        sr \in {<<Iso(7, ""), Iso(8, "")>>, <<None, Iso(8, "")>>},
        ss \in {<<Iso(19, "")>>, <<Iso(19, ""), Iso(20, "")>>} }

\* The events of the days i..Len(dates): a sunrise and a sunset per day, each
\* only when the provider gives a value for it.
RECURSIVE DayEvents(_, _)
DayEvents(daily, i) ==
    IF i > Len(daily.time) THEN <<>>
    ELSE (IF i <= Len(daily.sunrise) /\ Truthy(daily.sunrise[i])
          THEN <<TwilightEvent("Sunrise", daily.sunrise[i],
                               "Local sunrise time")>>
          ELSE <<>>)
         \o (IF i <= Len(daily.sunset) /\ Truthy(daily.sunset[i])
             THEN <<TwilightEvent("Sunset", daily.sunset[i],
                                  "Local sunset time")>>
             ELSE <<>>)
         \o DayEvents(daily, i + 1)

\* The list returned: [] on an HTTP error or any other exception.
fetch_twilight_events(up) ==
    IF up.kind = "response" /\ up.status = 200 THEN DayEvents(up.daily, 1)
    ELSE <<>>

-----------------------------------------------------------------------------
(* utils.fetch_rise_set_times *)

Utc(ts) == [utc |-> ts]

\* One entry of the `response` object of Radiant Drift: a date, the body its
\* data is for, and that body's rise, transit and set (None when absent).
RiseSetDays ==
    { [date |-> "2025-12-01", body |-> "sun", rise |-> Utc(Iso(5, "Z")),
       transit |-> Utc(Iso(12, "Z")), set |-> Utc(Iso(15, "Z"))],
      [date |-> "2025-12-01", body |-> "sun", rise |-> None,
       transit |-> None, set |-> None],
      [date |-> "2025-12-01", body |-> "moon", rise |-> None,
       transit |-> Utc(Iso(12, "Z")), set |-> None] }

RiseSetUpstream ==
    { [kind |-> "response", status |-> st, json |-> "absent", days |-> <<>>] :
          st \in {200, 403, 404, 500} }
    \cup { [kind |-> "response", status |-> 200, json |-> "response",
            days |-> ds] : ds \in {<<>>} \cup { <<d>> : d \in RiseSetDays } }
    \cup { [kind |-> "response", status |-> 200, json |-> "invalid",
            days |-> <<>>],
           [kind |-> "connection_error", status |-> 0, json |-> "absent",
            days |-> <<>>] }

\* The row built for a date that has data for the body.
RiseSetRow(body, day) ==
    [date |-> day.date,
     body |-> [name |-> <<Capitalize(body)>>],
     rise |-> IF day.rise = None THEN None ELSE Dated(day.rise.utc),
     transit |-> IF day.transit = None THEN None ELSE Dated(day.transit.utc),
     set |-> IF day.set = None THEN None ELSE Dated(day.set.utc),
     events |-> <<SubEvent("rise-set", IF day.transit = None THEN None
                                       ELSE day.transit.utc)>>]

RECURSIVE RiseSetRows(_, _)
RiseSetRows(body, days) ==
    IF days = <<>> THEN <<>>
    ELSE (IF Head(days).body = body THEN <<RiseSetRow(body, Head(days))>>
          ELSE <<>>)
         \o RiseSetRows(body, Tail(days))

\* [requests, raised, value]: the GETs sent, and the rows returned or the
\* HTTPError raised.  The header is built while the arguments of
\* requests.get are evaluated, inside the try: its ValueError is caught by
\* `except Exception` before any GET is sent.
fetch_rise_set_times(body, api_key, up) ==
    LET header == get_radiant_drift_auth_header(api_key)
        unsent == [requests |-> <<>>, raised |-> FALSE, value |-> <<>>]
        sent == [requests |-> <<Request("radiantdrift", header.value)>>,
                 raised |-> FALSE, value |-> <<>>]
    IN IF body \notin {"sun", "moon"} THEN unsent
       ELSE IF header.raised THEN unsent
       ELSE IF up.kind = "connection_error" THEN sent
       ELSE IF up.status = 404 THEN sent
       ELSE IF up.status # 200 THEN [sent EXCEPT !.raised = TRUE]
       ELSE IF up.json = "invalid" THEN sent
       ELSE IF up.json = "absent" THEN sent
       ELSE [sent EXCEPT !.value = RiseSetRows(body, up.days)]

-----------------------------------------------------------------------------
(* utils.fetch_meteor_shower_events, utils.fetch_fireball_events *)

\* One entry of the `result` list of an AMS answer.
AmsItems ==
    { [name |-> "Geminids", peak_date |-> Iso(10, "Z"), date |-> Iso(11, "Z"),
       description |-> "annual shower"] }

\* What a GET of the AMS API can come to: the JSON body has a status of its
\* own besides the HTTP one.
AmsUpstream ==
    { [kind |-> "response", status |-> 200, json |-> "object",
       data |-> [status |-> st, result |-> rs]] :
          st \in {200, 401}, rs \in {<<>>} \cup { <<it>> : it \in AmsItems } }
    \cup { [kind |-> "response", status |-> st, json |-> "absent",
            data |-> [status |-> 0, result |-> <<>>]] : st \in {200, 401, 500} }
    \cup { [kind |-> "response", status |-> 200, json |-> "invalid",
            data |-> [status |-> 0, result |-> <<>>]],
           [kind |-> "connection_error", status |-> 0, json |-> "absent",
            data |-> [status |-> 0, result |-> <<>>]] }

MeteorShowerEvent(ev) ==
    [body |-> "Meteor Shower", type |-> ev.name, peak |-> ev.peak_date,
     rise |-> None, set |-> None, obscuration |-> None,
     highlights |-> [source |-> "ams_meteors", category |-> "meteor_shower",
                     description |-> ev.description]]

FireballEvent(rep) ==
    [body |-> "Fireball", type |-> "Fireball Sighting", peak |-> rep.date,
     rise |-> None, set |-> None, obscuration |-> None,
     highlights |-> [source |-> "ams_meteors", category |-> "fireball",
                     description |-> "Fireball sighting reported"]]

\* The `result` entries of an answer that is usable: HTTP 200 and a JSON
\* object whose own status is 200; nothing otherwise.
AmsResult(up) ==
    IF up.kind = "response" /\ up.status = 200 /\ up.json = "object"
       /\ up.data.status = 200
    THEN up.data.result ELSE <<>>

\* [requests, value]: without an api_key no GET is sent; the key travels as
\* a query parameter.
fetch_meteor_shower_events(api_key, up) ==
    IF ~api_key THEN [requests |-> <<>>, raised |-> FALSE, value |-> <<>>]
    ELSE [requests |-> <<[to |-> "amsmeteors/get_events",
                          auth |-> "api_key"]>>,
          raised |-> FALSE,
          value |-> [i \in 1..Len(AmsResult(up)) |->
                        MeteorShowerEvent(AmsResult(up)[i])]]

fetch_fireball_events(api_key, up) ==
    IF ~api_key THEN [requests |-> <<>>, raised |-> FALSE, value |-> <<>>]
    ELSE [requests |-> <<[to |-> "amsmeteors/get_close_reports",
                          auth |-> "api_key"]>>,
          raised |-> FALSE,
          value |-> [i \in 1..Len(AmsResult(up)) |->
                        FireballEvent(AmsResult(up)[i])]]

-----------------------------------------------------------------------------
(* utils.fetch_aurora_data *)

\* A cell of the NOAA feed that holds a number, in tenths, as text.
NumStr(tenths) == [k |-> "numstr", tenths |-> tenths]
NotANumber == [k |-> "str", text |-> "n/a"]

\* float(cell): [raised, value]; ValueError on text that is no number.
ToFloat(cell) ==
    IF cell.k = "numstr" THEN [raised |-> FALSE, value |-> Float(cell.tenths)]
    ELSE [raised |-> TRUE, value |-> None]

\* The feed is a list of lists: a header row, then one row per reading,
\* the most recent one last.
Header == [time_tag |-> "time_tag", kp |-> [k |-> "str", text |-> "Kp"]]

KpCells == { NumStr(t) : t \in {23, 39, 40, 49, 50, 67} } \cup {NotANumber}

Readings == { [time_tag |-> "2025-12-09 00:00:00", kp |-> c] : c \in KpCells }

\* What the GET of the feed can come to, with at most n readings.
AuroraUpstream(n) ==
    { [kind |-> "response", status |-> 200, json |-> "list",
       data |-> <<Header>> \o rs] :
          rs \in UNION { [1..m -> Readings] : m \in 0..n } }
    \cup { [kind |-> "response", status |-> 200, json |-> "list", data |-> <<>>],
           [kind |-> "response", status |-> 200, json |-> "invalid",
            data |-> <<>>],
           [kind |-> "response", status |-> 500, json |-> "absent",
            data |-> <<>>],
           [kind |-> "connection_error", status |-> 0, json |-> "absent",
            data |-> <<>>] }

\* Variant with strict comparisons at the two thresholds.
KpTierStrict(kp_index) ==
    IF kp_index.tenths > 50
    THEN [status |-> "High (Storm)", color |-> "danger"]
    ELSE IF kp_index.tenths > 40
    THEN [status |-> "Moderate", color |-> "warning"]
    ELSE [status |-> "Low", color |-> "success"]

\* if kp_index >= 5 ... elif kp_index >= 4 ... else
KpTier(kp_index) ==
    IF kp_index.tenths >= 50
    THEN [status |-> "High (Storm)", color |-> "danger"]
    ELSE IF kp_index.tenths >= 40
    THEN [status |-> "Moderate", color |-> "warning"]
    ELSE [status |-> "Low", color |-> "success"]

\* The dict returned, or None: every exception is caught and falls through
\* to `return None`.
fetch_aurora_data(up) ==
    IF up.kind # "response" \/ up.status # 200 \/ up.json # "list" THEN None
    ELSE IF Len(up.data) > 1
    THEN LET latest == up.data[Len(up.data)]
             kp_index == ToFloat(latest.kp)
         IN IF kp_index.raised THEN None
            ELSE [kp_index |-> kp_index.value,
                  status |-> KpTier(kp_index.value).status,
                  color |-> KpTier(kp_index.value).color,
                  timestamp |-> latest.time_tag]
    ELSE None

-----------------------------------------------------------------------------
(* views.fetch_all_events: escalation and sort *)

\* The sort key of an event: (parsed peak or datetime.max, body or "").
SortInstant(e) ==
    LET dt == ParseIso(e.peak)
    IN IF dt = None THEN Instant(DatetimeMax) ELSE Instant(dt)

\* Variant of the sort key without the body name.
KeyLessByPeakOnly(a, b) == SortInstant(a) < SortInstant(b)

\* Variant of the sort key without the peak.
KeyLessByBodyOnly(a, b) == StrLess(a.body, b.body)

KeyLess(a, b) ==
    \/ SortInstant(a) < SortInstant(b)
    \/ SortInstant(a) = SortInstant(b) /\ StrLess(a.body, b.body)

\* list.sort is stable: an element goes behind every element that is not
\* greater than it.
RECURSIVE Insert(_, _)
Insert(e, sorted) ==
    IF sorted = <<>> THEN <<e>>
    ELSE IF KeyLess(e, Head(sorted)) THEN <<e>> \o sorted
    ELSE <<Head(sorted)>> \o Insert(e, Tail(sorted))

RECURSIVE SortPrefix(_, _)
SortPrefix(list, n) ==
    IF n = 0 THEN <<>> ELSE Insert(list[n], SortPrefix(list, n - 1))

\* Variant without the sort.
KeepsOrder(list) == list

SortEvents(list) == SortPrefix(list, Len(list))

\* Variant of the escalation test that weighs the two counters.
EscalatesWhenFailuresPrevail(succ, fail) == fail > succ

\* Variants of the escalation test: one clause of the conjunction only.
EscalatesOnAnyFailure(succ, fail) == fail > 0

EscalatesWithoutSuccess(succ, fail) == succ = 0

\* if successes == 0 and failures > 0: raise RuntimeError
Escalates(succ, fail) == succ = 0 /\ fail > 0

-----------------------------------------------------------------------------
(* views.events_api: the slice *)

Min(a, b) == IF a < b THEN a ELSE b
Max(a, b) == IF a > b THEN a ELSE b

\* A slice bound as Python reads it against a list of length n.
SliceIndex(i, n) == IF i < 0 THEN Max(i + n, 0) ELSE Min(i, n)

\* Variant that takes the element at `stop` too.
SliceInclusive(list, start, stop) ==
    LET lo == SliceIndex(start, Len(list))
        hi == SliceIndex(stop + 1, Len(list))
    IN IF lo < hi THEN SubSeq(list, lo + 1, hi) ELSE <<>>

\* list[start:stop]
Slice(list, start, stop) ==
    LET lo == SliceIndex(start, Len(list))
        hi == SliceIndex(stop, Len(list))
    IN IF lo < hi THEN SubSeq(list, lo + 1, hi) ELSE <<>>

-----------------------------------------------------------------------------
(* The state machine *)

NoResponse == [status |-> 0]

\* No adapter has been called on its own.
NoCall == [fn |-> "none"]

\* Query values a caller may send as offset and as limit.
Offsets == -2 .. 4
Limits == -1 .. 2

Init ==
    /\ pc = "idle"
    /\ idx = 0
    /\ events_data = <<>>
    /\ seen = {}
    /\ successes = 0
    /\ failures = 0
    /\ outcome = "none"
    /\ response = NoResponse
    /\ rowsLeft = MaxRows
    /\ log = <<>>
    /\ nonEmpty = 0
    /\ raisedBodies = 0
    /\ twilight = <<>>
    /\ calls = <<>>
    /\ mock = <<>>
    /\ call = NoCall
    /\ favorites = <<>>
    /\ event_favorites = <<>>
    /\ posts = <<>>
    /\ inflight = <<>>

\* views.events_list: renders the page.
EventsList ==
    /\ pc = "idle"
    /\ pc' = "responded"
    /\ response' = [view |-> "events_list", status |-> 200,
                    template |-> "events_list.html",
                    context |-> [location |-> "Colorado Springs, CO"]]
    /\ UNCHANGED <<idx, events_data, seen, successes, failures, outcome,
                   rowsLeft, log, nonEmpty, raisedBodies, twilight, calls>>
    /\ UNCHANGED elsewhere

\* The JSON answer of events_api's except branch.
ErrorResponse(exception) ==
    [view |-> "events_api", status |-> 500, events |-> <<>>, error |-> TRUE,
     message |-> exception]

\* An exception that leaves the view uncaught.
Propagated(exception) ==
    [view |-> "events_api", status |-> 0, exception |-> exception]

\* Variant of the except clause that catches ValueError only.
CatchValueErrorOnly(exception) ==
    IF exception = "ValueError" THEN ErrorResponse(exception)
    ELSE Propagated(exception)

\* `except Exception as e` around the whole body of events_api.
Catch(exception) == ErrorResponse(exception)

\* views.events_api up to its call of fetch_all_events: int() of the offset
\* and limit parameters, which raises ValueError on a value that is no
\* integer.  The integers themselves are first used by the slice, and are
\* drawn there.
ApiBegin ==
    /\ pc = "idle"
    /\ \E parses \in BOOLEAN :
         IF parses
         THEN /\ pc' = "bodies"
              /\ UNCHANGED response
         ELSE /\ pc' = "responded"
              /\ response' = Catch("ValueError")
    /\ UNCHANGED <<idx, events_data, seen, successes, failures, outcome,
                   rowsLeft, log, nonEmpty, raisedBodies, twilight, calls>>
    /\ UNCHANGED elsewhere

\* Whether handling this row raises: a name of blanks only, or a sub-event
\* peak that does not parse.
RowRaises(row, body) ==
    \/ row.body.name # <<>> /\ Split(row.body.name) = <<>>
    \/ \E i \in 1..Len(row.events) :
         /\ Truthy(PeakDate(row.events[i]))
         /\ ParseIso(PeakDate(row.events[i])) = None

\* Variant in which an exception in a body's iteration ends the loop.
LoopEndsOnRaise(done, raised) ==
    IF raised \/ done = Len(celestial_bodies) THEN "twilight" ELSE "bodies"

\* The try/except sits inside `for body in celestial_bodies`: whether the
\* iteration raised or not, the loop goes on with the next body, and the
\* twilight call follows the last one.
LoopGoesOn(done, raised) ==
    IF done = Len(celestial_bodies) THEN "twilight" ELSE "bodies"

\* fetch_all_events: one iteration of `for body in celestial_bodies`, with
\* the answer `up` of the provider.
QueryBody(up) ==
    /\ pc = "bodies"
    /\ LET body == celestial_bodies[idx + 1]
           got == fetch_astronomical_events(up)
           st0 == [events_data |-> events_data, seen |-> seen, log |-> log,
                   raised |-> FALSE]
           st == IF got.raised THEN [st0 EXCEPT !.raised = TRUE]
                 ELSE ProcessRows(st0, got.value, body)
       IN /\ events_data' = st.events_data
          /\ seen' = st.seen
          /\ log' = st.log
          /\ successes' = IF ~got.raised /\ got.value # <<>>
                          THEN successes + 1 ELSE successes
          /\ failures' = IF st.raised THEN failures + 1 ELSE failures
          /\ nonEmpty' = nonEmpty + (IF Len(got.value) > 0 THEN 1 ELSE 0)
          /\ raisedBodies' = raisedBodies
                 + (IF got.raised \/ \E i \in 1..Len(got.value) :
                                        RowRaises(got.value[i], body)
                    THEN 1 ELSE 0)
    /\ rowsLeft' = rowsLeft - Len(up.rows)
    /\ idx' = idx + 1
    /\ calls' = Append(calls, celestial_bodies[idx + 1])
    /\ pc' = LoopGoesOn(idx + 1, failures' > failures)
    /\ UNCHANGED <<outcome, response, twilight>>
    /\ UNCHANGED elsewhere

\* Variant that appends what the meteor-shower adapter makes of a usable
\* answer as well.
ExtendWithMeteorShowers(list, twilight_events) ==
    LET up == CHOOSE u \in AmsUpstream : AmsResult(u) # <<>>
    IN list \o twilight_events \o fetch_meteor_shower_events(TRUE, up).value

\* events_data.extend(twilight_events): the only list fetch_all_events
\* appends to the events of the body queries.
Extend(list, twilight_events) == list \o twilight_events

\* The key function of the final sort calls _parse_iso on the peak of every
\* event of the list; the sort raises what any of these calls raises.
SortRaises(list) == \E i \in 1..Len(list) : ReplaceRaises(list[i].peak)

\* fetch_all_events after the loop: the twilight adapter's events are
\* appended, then the call raises or sorts and returns.  An exception of the
\* sort leaves the call as it is ("crashed").
Finish(up) ==
    /\ pc = "twilight"
    /\ LET twilight_events == fetch_twilight_events(up)
           merged == Extend(events_data, twilight_events)
       IN /\ twilight' = twilight_events
          /\ IF Escalates(successes, failures)
             THEN /\ events_data' = merged
                  /\ outcome' = "raised"
             ELSE IF SortRaises(merged)
             THEN /\ events_data' = merged
                  /\ outcome' = "crashed"
             ELSE /\ events_data' = SortEvents(merged)
                  /\ outcome' = "returned"
    /\ calls' = Append(calls, "twilight")
    /\ pc' = "settled"
    /\ UNCHANGED <<idx, seen, successes, failures, response, rowsLeft, log,
                   nonEmpty, raisedBodies>>
    /\ UNCHANGED elsewhere

\* The JSON answer of events_api for the list all_events.
PageResponse(all_events, offset, limit) ==
    LET slice_ == Slice(all_events, offset, offset + limit)
    IN [view |-> "events_api", status |-> 200, events |-> slice_,
        total |-> Len(all_events), offset |-> offset, limit |-> limit,
        has_more |-> (offset + Len(slice_)) < Len(all_events),
        error |-> FALSE]

\* fetch_all_events hands its result to the caller: its locals are gone, and
\* events_data stands for the caller's all_events (nothing when it raised).
Return ==
    /\ pc = "settled"
    /\ pc' = "api"
    /\ events_data' = IF outcome = "returned" THEN events_data ELSE <<>>
    /\ idx' = 0
    /\ seen' = {}
    /\ successes' = 0
    /\ failures' = 0
    /\ rowsLeft' = 0
    /\ log' = <<>>
    /\ nonEmpty' = 0
    /\ raisedBodies' = 0
    /\ twilight' = <<>>
    /\ calls' = <<>>
    /\ UNCHANGED <<outcome, response>>
    /\ UNCHANGED elsewhere

\* views.events_api from the return of fetch_all_events on: the page, or the
\* error answer when the call raised.
ApiRespond ==
    /\ pc = "api"
    /\ IF outcome = "returned"
       THEN \E offset \in Offsets, limit \in Limits :
                response' = PageResponse(events_data, offset, limit)
       ELSE response' = Catch(IF outcome = "raised" THEN "RuntimeError"
                              ELSE "AttributeError")
    /\ pc' = "responded"
    /\ UNCHANGED <<idx, events_data, seen, successes, failures, outcome,
                   rowsLeft, log, nonEmpty, raisedBodies, twilight, calls>>
    /\ UNCHANGED elsewhere

Next ==
    \/ EventsList
    \/ ApiBegin
    \/ \E up \in PrimaryUpstream(rowsLeft) : QueryBody(up)
    \/ \E up \in TwilightUpstream : Finish(up)
    \/ Return
    \/ ApiRespond

Spec == Init /\ [][Next]_vars

-----------------------------------------------------------------------------
(* The aggregation against a mocked provider *)

\* generate_mock_rows: row k is named "Body k" and has one sub-event of type
\* "E" whose peak is on a day of its own.
MockRow(k) ==
    Row(<<"Body", " ", ToString(k)>>, <<SubEvent("E", Iso(k, "Z"))>>,
        None, None, None, None)

\* The row lists a mock may hold: up to n rows of distinct peak dates, in any
\* order.
MockRowLists(n) ==
    { [i \in DOMAIN ks |-> MockRow(ks[i])] :
        ks \in { f \in UNION { [1..m -> 1..n] : m \in 0..n } :
                    \A i, j \in DOMAIN f : i # j => f[i] # f[j] } }

InitMocked ==
    /\ pc = "idle"
    /\ idx = 0
    /\ events_data = <<>>
    /\ seen = {}
    /\ successes = 0
    /\ failures = 0
    /\ outcome = "none"
    /\ response = NoResponse
    /\ rowsLeft = 0
    /\ log = <<>>
    /\ nonEmpty = 0
    /\ raisedBodies = 0
    /\ twilight = <<>>
    /\ calls = <<>>
    /\ mock \in MockRowLists(MaxMock)
    /\ call = NoCall
    /\ favorites = <<>>
    /\ event_favorites = <<>>
    /\ posts = <<>>
    /\ inflight = <<>>

\* m.get(requests_mock.ANY, json={"data": {"rows": mock_rows}}): the answer
\* to every body query.
MockedAnswer ==
    [kind |-> "response", status |-> 200, json |-> "rows", rows |-> mock]

NextMocked ==
    \/ ApiBegin
    \/ QueryBody(MockedAnswer)
    \/ \E up \in TwilightUpstream : Finish(up)
    \/ Return
    \/ ApiRespond

SpecMocked == InitMocked /\ [][NextMocked]_vars

-----------------------------------------------------------------------------
(* views.toggle_favorite, views.toggle_event_favorite *)

AnonymousUser == "AnonymousUser"
Users == {"ada", "bob"}

\* request.POST.get(...) of a parameter the request does not carry.
Missing == ""

\* What a toggle request can be: who sends it, the key it names (image_url
\* or event_id) and the text it carries besides (title, or body).
ToggleRequests ==
    { [user |-> u, key |-> k, text |-> t] :
        u \in Users, k \in {"k1", "k2"}, t \in {"a", "b"} }
    \cup { [user |-> AnonymousUser, key |-> "k1", text |-> "a"],
           [user |-> "ada", key |-> Missing, text |-> "a"] }

\* The positions of the rows of a table that a user holds for a key.
Matching(table, user, key) ==
    { i \in 1..Len(table) : table[i].user = user /\ table[i].key = key }

\* Variant in which delete() leaves the row in the table.
KeepRow(table, i) == table

\* instance.delete(): the table without its row i.
DeleteRow(table, i) ==
    [j \in 1..(Len(table) - 1) |-> IF j < i THEN table[j] ELSE table[j + 1]]

\* QuerySet.first(): the matching row of lowest primary key.
First(positions) == CHOOSE i \in positions : \A j \in positions : i <= j

\* The entry of `posts` for a request, with the table as it stood before.
Post(view, req, table) ==
    [view |-> view, user |-> req.user, key |-> req.key, before |-> table]

\* What a toggle leaves alone besides the other table.
untoggled == <<pc, idx, events_data, seen, successes, failures, outcome,
               rowsLeft, log, nonEmpty, raisedBodies, twilight, calls, mock,
               call, inflight>>

\* views.toggle_favorite: get_or_create on (user, image_url), then delete()
\* when the row was there already.  A request without image_url gets as far
\* as the INSERT, which the NOT NULL column refuses: the IntegrityError
\* leaves the view.
ToggleFavorite(req) ==
    /\ Len(posts) < MaxPosts
    /\ posts' = Append(posts, Post("toggle_favorite", req, favorites))
    /\ LET found == Matching(favorites, req.user, req.key)
       IN IF req.user = AnonymousUser
          THEN /\ response' = [view |-> "toggle_favorite", status |-> 401]
               /\ UNCHANGED favorites
          ELSE IF req.key = Missing
          THEN /\ response' = [view |-> "toggle_favorite", status |-> 500,
                                exception |-> "IntegrityError"]
               /\ UNCHANGED favorites
          ELSE IF found # {}
          THEN /\ favorites' = DeleteRow(favorites, First(found))
               /\ response' = [view |-> "toggle_favorite", status |-> 200,
                                favorited |-> FALSE]
          ELSE /\ favorites' = Append(favorites,
                                      [user |-> req.user, key |-> req.key,
                                       title |-> req.text])
               /\ response' = [view |-> "toggle_favorite", status |-> 200,
                                favorited |-> TRUE]
    /\ UNCHANGED event_favorites
    /\ UNCHANGED untoggled

\* views.toggle_event_favorite: filter(...).first(), then delete() or
\* create().
ToggleEventFavorite(req) ==
    /\ Len(posts) < MaxPosts
    /\ posts' = Append(posts,
                       Post("toggle_event_favorite", req, event_favorites))
    /\ LET found == Matching(event_favorites, req.user, req.key)
       IN IF req.user = AnonymousUser
          THEN /\ response' = [view |-> "toggle_event_favorite",
                                status |-> 401]
               /\ UNCHANGED event_favorites
          ELSE IF req.key = Missing
          THEN /\ response' = [view |-> "toggle_event_favorite",
                                status |-> 400]
               /\ UNCHANGED event_favorites
          ELSE IF found # {}
          THEN /\ event_favorites' = DeleteRow(event_favorites, First(found))
               /\ response' = [view |-> "toggle_event_favorite",
                                status |-> 200, favorited |-> FALSE]
          ELSE /\ event_favorites' = Append(event_favorites,
                                            [user |-> req.user,
                                             key |-> req.key,
                                             body |-> req.text])
               /\ response' = [view |-> "toggle_event_favorite",
                                status |-> 200, favorited |-> TRUE]
    /\ UNCHANGED favorites
    /\ UNCHANGED untoggled

NextFavorites ==
    \/ \E req \in ToggleRequests : ToggleFavorite(req)
    \/ \E req \in ToggleRequests : ToggleEventFavorite(req)

SpecFavorites == Init /\ [][NextFavorites]_vars

-----------------------------------------------------------------------------
(* Adapters and helpers called on their own *)

\* What a call on its own leaves alone: the request state and the tables.
aside == <<pc, idx, events_data, seen, successes, failures, outcome, response,
           rowsLeft, log, nonEmpty, raisedBodies, twilight, calls, mock,
           favorites, event_favorites, posts, inflight>>

\* utils.fetch_astronomical_events(body, ...) against the answer `up`; the
\* GET is sent with whatever get_auth_header() returned.
CallFetchAstronomicalEvents ==
    /\ call = NoCall
    /\ \E app_id, app_secret \in BOOLEAN, up \in PrimaryUpstream(MaxRows) :
         call' = [fn |-> "fetch_astronomical_events",
                  requests |-> <<Request("astronomyapi",
                                         get_auth_header(app_id, app_secret))>>,
                  credentials |-> app_id /\ app_secret,
                  up |-> up,
                  result |-> fetch_astronomical_events(up)]
    /\ UNCHANGED aside

\* The strings the pipeline hands to _parse_iso: peaks, transit dates and
\* sunrise/sunset values of provider payloads, which may be missing.
Suffixes == {"Z", "+00:00", "+01:00", ""}

DtStrings ==
    {None, EmptyStr, NotADate}
    \cup { Iso(wall, sfx) : wall \in 0..23, sfx \in Suffixes }

\* views._parse_iso(dt_str)
CallParseIso ==
    /\ call = NoCall
    /\ \E dt_str \in DtStrings :
         call' = [fn |-> "_parse_iso", dt_str |-> dt_str,
                  result |-> ParseIso(dt_str)]
    /\ UNCHANGED aside

\* utils.fetch_aurora_data() against the answer `up`
CallFetchAuroraData ==
    /\ call = NoCall
    /\ \E up \in AuroraUpstream(MaxReadings) :
         call' = [fn |-> "fetch_aurora_data", up |-> up,
                  result |-> fetch_aurora_data(up)]
    /\ UNCHANGED aside

\* utils.fetch_twilight_events(latitude, longitude) against the answer `up`
CallFetchTwilightEvents ==
    /\ call = NoCall
    /\ \E up \in TwilightUpstream
                 \cup { [kind |-> "response", status |-> 200, daily |-> d] :
                            d \in DailyWithTwilight } :
         call' = [fn |-> "fetch_twilight_events", up |-> up,
                  result |-> fetch_twilight_events(up)]
    /\ UNCHANGED aside

\* The record of a call that reports the GETs it sent.
Outcome(fn, credentials, up, r) ==
    [fn |-> fn, credentials |-> credentials, requests |-> r.requests,
     up |-> up, result |-> [raised |-> r.raised, value |-> r.value]]

\* utils.fetch_rise_set_times(body, ...) with or without the setting
\* RADIANT_DRIFT_API_KEY
CallFetchRiseSetTimes ==
    /\ call = NoCall
    /\ \E body \in {"sun", "moon", "mars"}, api_key \in BOOLEAN,
          up \in RiseSetUpstream :
         call' = [Outcome("fetch_rise_set_times", api_key, up,
                          fetch_rise_set_times(body, api_key, up))
                  EXCEPT !.up = [answer |-> up, body |-> body]]
    /\ UNCHANGED aside

\* utils.fetch_meteor_shower_events(api_key=...)
CallFetchMeteorShowerEvents ==
    /\ call = NoCall
    /\ \E api_key \in BOOLEAN, up \in AmsUpstream :
         call' = Outcome("fetch_meteor_shower_events", api_key, up,
                         fetch_meteor_shower_events(api_key, up))
    /\ UNCHANGED aside

\* utils.fetch_fireball_events(api_key=...)
CallFetchFireballEvents ==
    /\ call = NoCall
    /\ \E api_key \in BOOLEAN, up \in AmsUpstream :
         call' = Outcome("fetch_fireball_events", api_key, up,
                         fetch_fireball_events(api_key, up))
    /\ UNCHANGED aside

NextAdapters ==
    \/ CallFetchAstronomicalEvents
    \/ CallFetchRiseSetTimes
    \/ CallFetchMeteorShowerEvents
    \/ CallFetchFireballEvents
    \/ CallFetchTwilightEvents
    \/ CallFetchAuroraData
    \/ CallParseIso

SpecAdapters == Init /\ [][NextAdapters]_vars

-----------------------------------------------------------------------------
(* Properties *)

\* fetch_all_events has ended and returned its list (events_data).
Returned == pc = "settled" /\ outcome = "returned"

\* An event built from a provider row (the twilight adapter's events carry
\* no transit).
IsPrimary(e) == "transit" \in DOMAIN e

Unparseable(e) == ParseIso(e.peak) = None

\* Two events whose peaks denote the same instant, or both none.
SamePeak(a, b) ==
    IF Unparseable(a) \/ Unparseable(b) THEN Unparseable(a) /\ Unparseable(b)
    ELSE Instant(ParseIso(a.peak)) = Instant(ParseIso(b.peak))

LogEvents(fate) ==
    LET kept == SelectSeq(log, LAMBDA entry : entry.fate = fate)
    IN [i \in 1..Len(kept) |-> kept[i].event]

\* The merged list as it stood before the sort.
Unsorted == LogEvents("emitted") \o twilight

\* C1: a returned list is in non-decreasing order of parsed peak, an
\* unparseable peak counting as later than every parseable one, and events of
\* equal parsed peak are in non-decreasing order of body name.
C1_SortedByPeakThenBody ==
    Returned =>
        \A i, j \in 1..Len(events_data) :
            i < j =>
                LET a == events_data[i]
                    b == events_data[j]
                IN /\ Unparseable(a) => Unparseable(b)
                   /\ ~Unparseable(a) /\ ~Unparseable(b) =>
                          Instant(ParseIso(a.peak)) <= Instant(ParseIso(b.peak))
                   /\ SamePeak(a, b) => ~StrLess(b.body, a.body)

\* A returned list the sort had to reorder, which holds an unparseable peak
\* and two events of different bodies at the same instant.
C1_Witness ==
    /\ Returned
    /\ events_data # Unsorted
    /\ \E i \in 1..Len(events_data) : Unparseable(events_data[i])
    /\ \E i, j \in 1..Len(events_data) :
          /\ i < j
          /\ ~Unparseable(events_data[i])
          /\ SamePeak(events_data[i], events_data[j])
          /\ events_data[i].body # events_data[j].body

\* C2 as stated: no two events of a returned list share (peak, body).
C2_NoSharedKeyAnywhere ==
    Returned =>
        \A i, j \in 1..Len(events_data) :
            i # j => DedupKey(events_data[i]) # DedupKey(events_data[j])

\* C2, amended: no two events of a returned list that were built from
\* provider rows share (peak, body); twilight events are merged as they come.
C2_NoSharedKeyAmongPrimary ==
    Returned =>
        \A i, j \in 1..Len(events_data) :
            i # j /\ IsPrimary(events_data[i]) /\ IsPrimary(events_data[j]) =>
                DedupKey(events_data[i]) # DedupKey(events_data[j])

\* A returned list in which a row was dropped as a duplicate and a twilight
\* event nevertheless shares its key with another event.
C2_Witness ==
    /\ Returned
    /\ \E n \in 1..Len(log) : log[n].fate = "duplicate"
    /\ \E i, j \in 1..Len(events_data) :
          /\ i # j
          /\ ~IsPrimary(events_data[j])
          /\ DedupKey(events_data[i]) = DedupKey(events_data[j])

\* C3: once all ten bodies are queried, the call raises exactly when no body
\* returned rows and some body's processing raised; successes and failures
\* count just those bodies.
C3_RaisesIffNoSuccessAndSomeFailure ==
    pc = "settled" =>
        /\ idx = Len(celestial_bodies)
        /\ successes = nonEmpty
        /\ failures = raisedBodies
        /\ outcome = "raised" <=> (nonEmpty = 0 /\ raisedBodies > 0)
        /\ nonEmpty > 0 => outcome = "returned"

\* A call that returned although bodies raised, because another returned rows.
C3_Witness ==
    /\ Returned
    /\ failures > 1
    /\ successes = 1
    /\ events_data # <<>>

\* C4 as stated: 403 from every body raises; an empty answer from every body
\* returns [].
C4_AllEmptyReturnsEmptyList ==
    pc = "settled" =>
        /\ (raisedBodies = Len(celestial_bodies) /\ nonEmpty = 0) =>
               outcome = "raised"
        /\ (raisedBodies = 0 /\ nonEmpty = 0) =>
               outcome = "returned" /\ events_data = <<>>

SameElements(s, t) ==
    /\ Len(s) = Len(t)
    /\ \A x \in {s[i] : i \in 1..Len(s)} \cup {t[i] : i \in 1..Len(t)} :
          Cardinality({i \in 1..Len(s) : s[i] = x})
              = Cardinality({i \in 1..Len(t) : t[i] = x})

\* C4, amended: 403 from every body raises; an empty answer from every body
\* returns, without raising, the twilight adapter's events and nothing else
\* ([] when that adapter gives none).
C4_AllEmptyReturnsTwilightOnly ==
    pc = "settled" =>
        /\ (raisedBodies = Len(celestial_bodies) /\ nonEmpty = 0) =>
               outcome = "raised"
        /\ (raisedBodies = 0 /\ nonEmpty = 0) =>
               /\ outcome = "returned"
               /\ SameElements(events_data, twilight)
               /\ twilight = <<>> => events_data = <<>>

\* Every body answered empty, and the list returned holds two twilight events.
C4_Witness ==
    /\ Returned
    /\ raisedBodies = 0
    /\ nonEmpty = 0
    /\ Len(events_data) = 2

\* C5: every event of a returned list has a peak; a row with neither a
\* sub-event peak nor a transit date is not in it.
C5_NoNullPeak ==
    Returned =>
        \A i \in 1..Len(events_data) :
            /\ events_data[i].peak # None
            /\ events_data[i].peak # EmptyStr

\* A returned, non-empty list of a call that skipped a row for want of a peak
\* and took another row's peak from its transit date.
C5_Witness ==
    /\ Returned
    /\ \E n \in 1..Len(log) : log[n].fate = "discarded"
    /\ \E i \in 1..Len(events_data) :
          /\ IsPrimary(events_data[i])
          /\ events_data[i].type = "rise-set"
          /\ events_data[i].peak = events_data[i].transit

\* C6: of the rows that come to the same (peak, body) key, one event is
\* emitted, and it is the one built from the first such row.
C6_FirstRowWins ==
    \A n \in 1..Len(log) :
        log[n].event # None =>
            LET key == DedupKey(log[n].event)
                first == CHOOSE m \in 1..n :
                            /\ log[m].event # None
                            /\ DedupKey(log[m].event) = key
                            /\ \A l \in 1..(m - 1) :
                                  log[l].event = None
                                  \/ DedupKey(log[l].event) # key
                hits == {i \in 1..Len(events_data) :
                            /\ IsPrimary(events_data[i])
                            /\ DedupKey(events_data[i]) = key}
            IN /\ Cardinality(hits) = 1
               /\ \A i \in hits : events_data[i] = log[first].event

\* A later row was dropped whose type, rise, set, transit, obscuration and
\* highlights all differ from those of the first row of its key.
C6_Witness ==
    /\ Returned
    /\ \E n \in 1..Len(log) :
          /\ log[n].fate = "duplicate"
          /\ \E i \in 1..Len(events_data) :
                /\ IsPrimary(events_data[i])
                /\ DedupKey(events_data[i]) = DedupKey(log[n].event)
                /\ events_data[i].type # log[n].event.type
                /\ events_data[i].rise # log[n].event.rise
                /\ events_data[i].set # log[n].event.set
                /\ events_data[i].transit # log[n].event.transit
                /\ events_data[i].obscuration # log[n].event.obscuration
                /\ events_data[i].highlights # log[n].event.highlights

ApiAnswered == pc = "responded" /\ response.view = "events_api"

\* C7: for offset >= 0 and limit > 0 the page holds the elements at positions
\* offset .. min(offset + limit, total) - 1, in order, and has_more says
\* whether elements remain behind it.
C7_PageIsTheWindow ==
    (ApiAnswered /\ response.status = 200
        /\ response.offset >= 0 /\ response.limit > 0) =>
        LET total == Len(events_data)
            last == Min(response.offset + response.limit, total)
            n == Len(response.events)
        IN /\ response.total = total
           /\ n = Max(last - response.offset, 0)
           /\ \A k \in 1..n :
                 response.events[k] = events_data[response.offset + k]
           /\ response.has_more <=> (response.offset + n < total)

\* A page from the middle of the list, with elements before and behind it.
C7_Witness ==
    /\ ApiAnswered
    /\ response.status = 200
    /\ response.offset > 0
    /\ response.limit = 2
    /\ Len(response.events) = 2
    /\ response.has_more
    /\ response.events[1] # response.events[2]

\* C8: whatever integer offset is sent, the page holds no element counted
\* from the end, and an offset outside 0 .. total - 1 gives an empty page with
\* has_more false.
C8_NoNegativeIndexing ==
    (ApiAnswered /\ response.status = 200) =>
        /\ \A k \in 1..Len(response.events) :
              /\ response.offset + k \in 1..Len(events_data)
              /\ response.events[k] = events_data[response.offset + k]
        /\ response.offset \notin 0..(Len(events_data) - 1) =>
              response.events = <<>> /\ ~response.has_more

\* C9: events_api answers 200 with error false, the total and the requested
\* slice when fetch_all_events returned, 500 with error true and no events
\* when it raised, and nothing else: no exception leaves the view.
C9_TwoShapes ==
    ApiAnswered =>
        /\ "exception" \notin DOMAIN response
        /\ \/ response.status = 200 /\ ~response.error
           \/ response.status = 500 /\ response.error
                /\ response.events = <<>>
        /\ outcome = "returned" =>
              /\ response.status = 200
              /\ ~response.error
              /\ response.total = Len(events_data)
              /\ response.events = Slice(events_data, response.offset,
                                         response.offset + response.limit)
        /\ outcome = "raised" =>
              /\ response.status = 500
              /\ response.error
              /\ response.events = <<>>

\* The answer to a request during which fetch_all_events raised.
C9_Witness ==
    /\ ApiAnswered
    /\ outcome = "raised"
    /\ response.status = 500
    /\ response.message = "RuntimeError"

\* C10: events_list invokes the aggregator; when that raises it answers 200
\* with no events and has_more false, and otherwise shows the first 20 events
\* with has_more telling whether there are more.
C10_EventsListShowsFirstPage ==
    (pc = "responded" /\ response.view = "events_list") =>
        /\ response.status = 200
        /\ outcome # "none"
        /\ "events" \in DOMAIN response.context
        /\ "has_more" \in DOMAIN response.context
        /\ outcome = "raised" =>
              response.context.events = <<>> /\ ~response.context.has_more
        /\ outcome = "returned" =>
              /\ response.context.events = Slice(events_data, 0, 20)
              /\ response.context.has_more <=> (Len(events_data) > 20)

-----------------------------------------------------------------------------
(* Properties of the adapters *)

Called(fn) == call.fn = fn

\* C11: fetch_astronomical_events maps each upstream outcome to one result:
\* a 200 gives data.rows, or [] when data or rows is absent or empty; 404
\* gives []; 403 raises; every other HTTP error status, a connection-level
\* RequestException and a body that is no JSON give [].
C11_OutcomeTable ==
    Called("fetch_astronomical_events") =>
        LET up == call.up
            r == call.result
            empty == [raised |-> FALSE, value |-> <<>>]
        IN /\ (up.kind = "response" /\ up.status = 200 /\ up.json = "rows") =>
                  r = [raised |-> FALSE, value |-> up.rows]
           /\ (up.kind = "response" /\ up.status = 200 /\ up.json # "rows") =>
                  r = empty
           /\ (up.kind = "response" /\ up.status = 404) => r = empty
           /\ (up.kind = "response" /\ up.status = 403) => r.raised
           /\ (up.kind = "response" /\ up.status \notin {200, 403, 404}) =>
                  r = empty
           /\ up.kind = "connection_error" => r = empty

\* A 500 answered with [].
C11_Witness ==
    /\ Called("fetch_astronomical_events")
    /\ call.up.kind = "response"
    /\ call.up.status = 500
    /\ call.result = [raised |-> FALSE, value |-> <<>>]

\* C12 as stated: on 403, on 401 and on a connection-level failure the
\* adapter raises instead of returning [].
C12_RefusalsAllRaise ==
    (/\ Called("fetch_astronomical_events")
     /\ \/ call.up.kind = "response" /\ call.up.status \in {401, 403}
        \/ call.up.kind = "connection_error") =>
        call.result.raised

\* C12, amended: of the refusals only 403 raises; on 401 and on a
\* connection-level failure the adapter returns [] without raising.
C12_Only403Raises ==
    Called("fetch_astronomical_events") =>
        /\ call.result.raised <=>
               (call.up.kind = "response" /\ call.up.status = 403)
        /\ ((call.up.kind = "response" /\ call.up.status = 401)
               \/ call.up.kind = "connection_error") =>
               call.result = [raised |-> FALSE, value |-> <<>>]

\* A connection-level failure answered with [].
C12_Witness ==
    /\ Called("fetch_astronomical_events")
    /\ call.up.kind = "connection_error"
    /\ ~call.result.raised
    /\ call.result.value = <<>>

\* The utc offset, in hours, that a timestamp's suffix states; none stated
\* counts as UTC.
StatedOffset(sfx) == IF sfx = "+01:00" THEN 1 ELSE 0

HasReading(up) ==
    /\ up.kind = "response"
    /\ up.status = 200
    /\ up.json = "list"
    /\ Len(up.data) > 1
    /\ up.data[Len(up.data)].kp.k = "numstr"

\* C14: fetch_aurora_data reads the K-index of the last row and puts it in
\* exactly one tier: below 4 Low/success, from 4 to below 5 Moderate/warning,
\* from 5 on High (Storm)/danger; on any failure, or without a row behind the
\* header, it returns None.
C14_TierOfLastRow ==
    Called("fetch_aurora_data") =>
        LET up == call.up
            r == call.result
        IN IF HasReading(up)
           THEN LET last == up.data[Len(up.data)]
                    kp == last.kp.tenths
                IN /\ r.kp_index = Float(kp)
                   /\ r.timestamp = last.time_tag
                   /\ kp < 40 => r.status = "Low" /\ r.color = "success"
                   /\ (40 <= kp /\ kp < 50) =>
                          r.status = "Moderate" /\ r.color = "warning"
                   /\ kp >= 50 =>
                          r.status = "High (Storm)" /\ r.color = "danger"
           ELSE r = None

\* A feed whose earlier reading is a storm and whose last reading is exactly
\* 4: Moderate.
C14_Witness ==
    /\ Called("fetch_aurora_data")
    /\ Len(call.up.data) = 3
    /\ call.up.data[2].kp = NumStr(67)
    /\ call.up.data[3].kp = NumStr(40)
    /\ call.result.status = "Moderate"

\* The list holds a value for the only day.
Populated(list) == Len(list) = 1 /\ Truthy(list[1])

\* The answer is a daily payload of one date with both values of a pair
\* populated: twilight start and end, or sunrise and sunset.
OneDayBothValues(up) ==
    /\ up.kind = "response"
    /\ up.status = 200
    /\ Len(up.daily.time) = 1
    /\ \/ /\ "astronomical_twilight_start" \in DOMAIN up.daily
          /\ Populated(up.daily.astronomical_twilight_start)
          /\ Populated(up.daily.astronomical_twilight_end)
       \/ /\ Populated(up.daily.sunrise)
          /\ Populated(up.daily.sunset)

\* C15 as stated: for one date with both values the adapter returns two
\* events, "Astronomical Twilight Start" and "Astronomical Twilight End",
\* and never more than two events per day.
C15_TwilightStartAndEnd ==
    Called("fetch_twilight_events") =>
        /\ Len(call.result) <= 2 * Len(call.up.daily.time)
        /\ OneDayBothValues(call.up) =>
               /\ Len(call.result) = 2
               /\ call.result[1].type = "Astronomical Twilight Start"
               /\ call.result[2].type = "Astronomical Twilight End"

\* C15, amended: for one date with both sunrise and sunset populated the
\* adapter returns two events, "Sunrise" then "Sunset", each with the
\* provider's "<date>T<time>" value as its peak; astronomical-twilight values
\* give no event; and never more than two events per day.
C15_SunriseAndSunset ==
    Called("fetch_twilight_events") =>
        LET up == call.up
            r == call.result
        IN /\ Len(r) <= 2 * Len(up.daily.time)
           /\ \A i \in 1..Len(r) : r[i].type \in {"Sunrise", "Sunset"}
           /\ (/\ up.kind = "response"
               /\ up.status = 200
               /\ Len(up.daily.time) = 1
               /\ Populated(up.daily.sunrise)
               /\ Populated(up.daily.sunset)) =>
                  /\ Len(r) = 2
                  /\ r[1].type = "Sunrise"
                  /\ r[1].peak = up.daily.sunrise[1]
                  /\ r[2].type = "Sunset"
                  /\ r[2].peak = up.daily.sunset[1]

\* A payload of one date that carries twilight start and end besides sunrise
\* and sunset, answered with two events.
C15_Witness ==
    /\ Called("fetch_twilight_events")
    /\ Len(call.up.daily.time) = 1
    /\ "astronomical_twilight_start" \in DOMAIN call.up.daily
    /\ Len(call.result) = 2

-----------------------------------------------------------------------------
(* Properties of the aggregation against a mocked provider *)

\* The events of a list that were built from provider rows, in order.
Primary(list) == SelectSeq(list, IsPrimary)

\* The event that row k of the mock comes to.
MockEvent(k) ==
    [body |-> "Body", type |-> "E", peak |-> Iso(k, "Z"), rise |-> None,
     set |-> None, transit |-> None, obscuration |-> None,
     highlights |-> [peak |-> [date |-> Iso(k, "Z")]]]

Ascending(list) ==
    \A i, j \in 1..Len(list) :
        i < j => SortInstant(list[i]) < SortInstant(list[j])

\* The first page is asked for, it is shorter than the mock's row list.
FirstPageOfMore ==
    /\ ApiAnswered
    /\ response.status = 200
    /\ response.offset = 0
    /\ response.limit > 0
    /\ response.limit < Len(mock)

\* C16 as stated: when every body answers the same N rows, the call returns
\* exactly N events, in ascending peak order, and a first page shorter than
\* N has has_more true.
C16_ExactlyNEvents ==
    /\ Returned =>
           /\ Len(events_data) = Len(mock)
           /\ Ascending(events_data)
    /\ FirstPageOfMore => response.has_more

\* C16, amended: when every body answers the same N rows, the call returns
\* exactly N events built from rows, one per row and each of body "Body",
\* in ascending peak order, together with the twilight adapter's events and
\* nothing else; a first page shorter than N is full and has has_more true.
C16_NRowEventsPlusTwilight ==
    /\ Returned =>
           /\ Len(Primary(events_data)) = Len(mock)
           /\ \A i \in 1..Len(mock) :
                 \E j \in 1..Len(events_data) :
                     events_data[j]
                         = MockEvent(mock[i].events[1].eventHighlights.peak
                                            .date.wall)
           /\ Ascending(Primary(events_data))
           /\ Len(events_data) = Len(mock) + Len(twilight)
           /\ twilight = <<>> => Len(events_data) = Len(mock)
    /\ FirstPageOfMore =>
           /\ Len(response.events) = response.limit
           /\ response.has_more

\* Three mocked rows, not in peak order, came back from all ten bodies; the
\* list holds twilight events besides, and its first page of two has more
\* behind it.
C16_Witness ==
    /\ FirstPageOfMore
    /\ Len(mock) = MaxMock
    /\ ~Ascending([i \in 1..Len(mock) |-> MockEvent(
                       mock[i].events[1].eventHighlights.peak.date.wall)])
    /\ Len(events_data) > Len(mock)
    /\ response.limit = 2
    /\ response.has_more

\* A call of one of the adapters that take credentials.
CredentialedCall ==
    call.fn \in {"fetch_astronomical_events", "fetch_rise_set_times",
                 "fetch_meteor_shower_events", "fetch_fireball_events"}

Unsent == call.requests = <<>> /\ call.result = [raised |-> FALSE,
                                                  value |-> <<>>]

\* C17 as stated: an adapter that lacks its credentials returns [] and sends
\* no request, and no request goes out without its credential.
C17_NoCredentialsNoRequest ==
    CredentialedCall =>
        /\ ~call.credentials => Unsent
        /\ \A i \in 1..Len(call.requests) : call.requests[i].auth # "none"

\* C17, amended: the rise/set adapter without its key and the meteor-shower
\* and fireball adapters without api_key return [] and send no request, and
\* never send a request without the credential; the primary adapter without
\* app id or secret sends its one request all the same, without an
\* Authorization header, and returns what that request yields.
C17_OnlyPrimarySendsUnauthenticated ==
    CredentialedCall =>
        IF Called("fetch_astronomical_events")
        THEN /\ Len(call.requests) = 1
             /\ call.requests[1].auth = "none" <=> ~call.credentials
             /\ (call.up.kind = "response" /\ call.up.status = 200
                    /\ call.up.json = "rows") =>
                    call.result.value = call.up.rows
        ELSE /\ ~call.credentials => Unsent
             /\ \A i \in 1..Len(call.requests) :
                   call.requests[i].auth # "none"

\* The primary adapter, without credentials, got rows from its provider.
C17_Witness ==
    /\ Called("fetch_astronomical_events")
    /\ ~call.credentials
    /\ call.requests[1].auth = "none"
    /\ Len(call.result.value) = MaxRows

-----------------------------------------------------------------------------
(* Properties of the favorite toggles *)

\* The table a post works on, as it stands now.
TableOf(post) ==
    IF post.view = "toggle_favorite" THEN favorites ELSE event_favorites

\* A post by a logged-in user that names its key.
Toggles(post) == post.user \in Users /\ post.key # Missing

Held(table, user, key) == Cardinality(Matching(table, user, key))

\* Two tables in which every user holds every key equally often.
SameFavorites(s, t) ==
    \A u \in Users, k \in {"k1", "k2"} : Held(s, u, k) = Held(t, u, k)

-----------------------------------------------------------------------------
(* Properties of the order of the adapter calls *)

\* The invocations of one aggregation: every roster body, then twilight.
AllCalls == celestial_bodies \o <<"twilight">>

\* C19: the adapter calls of fetch_all_events are, at every moment, the
\* first so many of: one primary call per roster body in roster order, then
\* one twilight call; whatever the bodies answered, the call has made them
\* all when it settles; and until the twilight call is over nothing is
\* decided and nothing is sorted.
C19_EachBodyOnceThenTwilight ==
    /\ Len(calls) <= Len(AllCalls)
    /\ \A i \in 1..Len(calls) : calls[i] = AllCalls[i]
    /\ pc \in {"bodies", "twilight"} =>
           /\ Len(calls) = idx
           /\ outcome = "none"
           /\ events_data = LogEvents("emitted")
    /\ pc = "twilight" => calls = celestial_bodies
    /\ pc = "settled" => calls = AllCalls /\ outcome # "none"

\* A settled call during which the processing of one body raised, a later
\* body returned a row that was emitted, and the other eight gave nothing.
C19_Witness ==
    /\ pc = "settled"
    /\ calls = AllCalls
    /\ raisedBodies > 0
    /\ nonEmpty = 2
    /\ log # <<>>
    /\ log[1].fate = "raised"
    /\ log[Len(log)].fate = "emitted"

-----------------------------------------------------------------------------
(* Properties of the row loop *)

\* The sub-events of a row that carry a peak.
WithPeak(row) ==
    { i \in 1..Len(row.events) : Truthy(PeakDate(row.events[i])) }

\* An event was built from the row: it was emitted, or dropped only because
\* an earlier row had taken its (peak, body) key.
Built(entry) == entry.fate \in {"emitted", "duplicate"}

\* C20: a row of which some sub-event carries a peak comes to an event of
\* the first sub-event's type whose peak denotes the earliest instant among
\* the sub-event peaks; a row without such a peak but with a transit date
\* comes to an event with that date as its peak; a row with neither is
\* discarded.
C20_TypeAndEarliestPeak ==
    \A n \in 1..Len(log) :
        LET row == log[n].row
            e == log[n].event
            parsed(i) == ParseIso(PeakDate(row.events[i]))
        IN /\ WithPeak(row) # {} =>
                  /\ Built(log[n])
                  /\ e.type = row.events[1].type
                  /\ ParseIso(e.peak) # None
                  /\ \E i \in WithPeak(row) :
                        /\ parsed(i) # None
                        /\ Instant(ParseIso(e.peak)) = Instant(parsed(i))
                  /\ \A i \in WithPeak(row) :
                        parsed(i) # None =>
                            Instant(ParseIso(e.peak)) <= Instant(parsed(i))
           /\ (WithPeak(row) = {} /\ TransitFallback(row) # None) =>
                  /\ Built(log[n])
                  /\ e.peak = row.transit.date
           /\ (WithPeak(row) = {} /\ TransitFallback(row) = None) =>
                  log[n].fate = "discarded"

-----------------------------------------------------------------------------
(* The aggregation while the primary provider is out of order *)

\* The answers of a provider in trouble: an HTTP error status other than 403
\* and 404, a connection-level RequestException (a timeout is one), or a 200
\* whose body is no JSON.
TransientErrors ==
    { up \in PrimaryUpstream(0) :
        \/ up.kind = "connection_error"
        \/ up.kind = "response" /\ up.status \notin {200, 403, 404}
        \/ up.kind = "response" /\ up.status = 200 /\ up.json = "invalid" }

NextOutage ==
    \/ ApiBegin
    \/ \E up \in TransientErrors : QueryBody(up)
    \/ \E up \in TwilightUpstream : Finish(up)
    \/ Return
    \/ ApiRespond

SpecOutage == Init /\ [][NextOutage]_vars

\* C21 as stated: a transient error of the primary provider for a body adds
\* to the failure counter, so that after a roster of such answers the counter
\* stands at the roster's length and fetch_all_events raises.
C21_TransientErrorsEscalate ==
    /\ pc \in {"bodies", "twilight", "settled"} => failures = idx
    /\ pc = "settled" => outcome = "raised"

\* C21: a transient error of the primary provider for a body (an HTTP error
\* other than 403 and 404, a timeout, a malformed JSON body) is absorbed to an
\* empty result that adds to neither counter; a provider answering every body
\* with such an error makes fetch_all_events return the twilight events.
C21_TransientErrorsAbsorbed ==
    /\ pc \in {"bodies", "twilight", "settled"} =>
         /\ failures = 0
         /\ successes = 0
         /\ events_data \in {<<>>, SortEvents(twilight)}
    /\ pc = "settled" =>
         /\ outcome = "returned"
         /\ events_data = SortEvents(twilight)

\* The whole roster was answered with transient errors, and the call returned
\* the twilight events.
C21_Witness ==
    /\ pc = "settled"
    /\ idx = Len(celestial_bodies)
    /\ outcome = "returned"
    /\ Len(events_data) > 1

-----------------------------------------------------------------------------
(* The aggregation over payloads of other shapes *)

\* A sub-event as the provider documents it: rise, set and extraInfo belong
\* to the sub-event, beside its type and highlights.
FullSubEvent(type, date, rise, set, obscuration) ==
    [type |-> type, eventHighlights |-> [peak |-> [date |-> date]],
     rise |-> rise, set |-> set, extraInfo |-> [obscuration |-> obscuration]]

\* Rows beyond those of RowUniverse: the documented eclipse row, a row whose
\* transit date is a number, and a row whose sub-event peak is a number.
ShapeUniverse ==
    { Row(<<"Moon">>,
          <<FullSubEvent("eclipse", Iso(10, "Z"), Iso(5, "Z"), Iso(15, "Z"),
                         Float(5))>>,
          None, None, None, None),
      Row(<<"Moon">>, <<>>, Dated(Number(5)), None, None, None),
      Row(<<"Moon">>, <<SubEvent("E", Number(5))>>, None, None, None, None) }

\* What one GET of the primary provider can come to when its rows are of
\* these shapes: a 200 with up to n rows, a 403 or a 404.
ShapedUpstream(n) ==
    { [kind |-> "response", status |-> st, json |-> "absent", rows |-> <<>>] :
          st \in {403, 404} }
    \cup { [kind |-> "response", status |-> 200, json |-> "rows", rows |-> rs] :
               rs \in UNION { [1..m -> ShapeUniverse] : m \in 0..n } }

NextShapes ==
    \/ ApiBegin
    \/ \E up \in ShapedUpstream(rowsLeft) : QueryBody(up)
    \/ \E up \in TwilightUpstream : Finish(up)
    \/ Return
    \/ ApiRespond

SpecShapes == Init /\ [][NextShapes]_vars

\* C22: whatever the adapters answer and whatever the shape of the payloads,
\* a call of fetch_all_events either returns a list or raises the aggregate
\* failure of the escalation rule, and nothing else.
C22_RaisesOnlyTheAggregateFailure ==
    pc = "settled" =>
        \/ outcome = "returned"
        \/ outcome = "raised" /\ successes = 0 /\ failures > 0

\* The first sub-event of the row of a log entry carries rise, set and
\* extraInfo of its own.
Detailed(entry) ==
    /\ entry.row.events # <<>>
    /\ {"rise", "set", "extraInfo"} \subseteq DOMAIN entry.row.events[1]

\* C28: the event emitted for a provider row of the documented shape, whose
\* sub-event carries rise, set and extraInfo.obscuration, carries that
\* sub-event's obscuration and its rise and set instants.
C28_SubEventDetailsCarried ==
    \A i \in 1..Len(log) :
        (log[i].fate = "emitted" /\ Detailed(log[i])) =>
            LET sub == log[i].row.events[1]
            IN /\ log[i].event.obscuration = sub.extraInfo.obscuration
               /\ log[i].event.rise = sub.rise
               /\ log[i].event.set = sub.set

\* The events of a list, as a set.
Elements(list) == { list[i] : i \in 1..Len(list) }

\* C23 as stated: whenever a body query or the twilight adapter produced an
\* event, the call returns a list that holds the events produced instead of
\* raising.
C23_AnyEventPreventsRaise ==
    (pc = "settled" /\ Unsorted # <<>>) =>
        /\ outcome = "returned"
        /\ Elements(Unsorted) \subseteq Elements(events_data)

\* C23: whenever a body query of the primary provider produced an event, the
\* call returns a list that holds every event produced by the body queries
\* and by the twilight adapter, whatever the number of bodies that failed;
\* events of the twilight adapter alone do not prevent the raise when no body
\* returned rows and some body failed.
C23_PrimaryEventPreventsRaise ==
    pc = "settled" =>
        /\ LogEvents("emitted") # <<>> =>
               /\ outcome = "returned"
               /\ Elements(Unsorted) \subseteq Elements(events_data)
        /\ (twilight # <<>> /\ nonEmpty = 0 /\ raisedBodies > 0) =>
               outcome = "raised"

\* Two bodies failed, a third produced an event: the list returned holds it
\* and the twilight events.
C23_Witness ==
    /\ Returned
    /\ failures = 2
    /\ successes = 1
    /\ LogEvents("emitted") # <<>>
    /\ twilight # <<>>
    /\ Len(events_data) = Len(Unsorted)

\* C29: every roster body is counted at most once and in at most one counter:
\* successes and failures together never exceed the bodies processed, and
\* every row of a body counted as a success (the bodies whose rows the log
\* holds) was emitted, deduplicated or discarded.
C29_CountedAtMostOnce ==
    pc \in {"bodies", "twilight", "settled"} =>
        /\ successes + failures <= idx
        /\ \A i \in 1..Len(log) :
              log[i].fate \in {"emitted", "duplicate", "discarded"}

-----------------------------------------------------------------------------
(* The aggregation beside the AMS adapters *)

\* An aggregation whose primary provider supplies no rows, in an environment
\* where the AMS adapters, called on their own with or without a key, give
\* what `call` records.
NextAms ==
    \/ CallFetchMeteorShowerEvents
    \/ CallFetchFireballEvents
    \/ ApiBegin
    \/ \E up \in PrimaryUpstream(0) : QueryBody(up)
    \/ \E up \in TwilightUpstream : Finish(up)
    \/ Return
    \/ ApiRespond

SpecAms == Init /\ [][NextAms]_vars

AmsBodies == {"Meteor Shower", "Fireball"}

\* The AMS adapter whose call is on record was handed a key.
KeyConfigured ==
    /\ Called("fetch_meteor_shower_events") \/ Called("fetch_fireball_events")
    /\ call.credentials

\* C25 as stated: with an AMS key configured the returned list holds every
\* event the meteor-shower and fireball adapters produce; without one it holds
\* no event of body "Meteor Shower" or "Fireball".
C25_AmsEventsAppendedWithKey ==
    Returned =>
        IF KeyConfigured
        THEN Elements(call.result.value) \subseteq Elements(events_data)
        ELSE \A e \in Elements(events_data) : e.body \notin AmsBodies

\* C25: whether or not an AMS key is configured, fetch_all_events calls
\* neither the meteor-shower nor the fireball adapter, and the returned list
\* holds no event of body "Meteor Shower" or "Fireball", none of those the
\* adapters produce with the key included.
C25_AmsEventsNeverAppended ==
    /\ \A i \in 1..Len(calls) : calls[i] = AllCalls[i]
    /\ Returned =>
           /\ \A e \in Elements(events_data) : e.body \notin AmsBodies
           /\ KeyConfigured =>
                  Elements(call.result.value) \cap Elements(events_data) = {}

\* With a key the meteor-shower adapter produces an event; the aggregation
\* returned twilight events only.
C25_Witness ==
    /\ Returned
    /\ Called("fetch_meteor_shower_events")
    /\ call.credentials
    /\ call.result.value # <<>>
    /\ events_data # <<>>

-----------------------------------------------------------------------------
(* views.fetch_all_events as a function of the order of its body queries *)

\* One iteration of `for body in celestial_bodies` on the loop's state
\* st = [events_data, seen, log, successes, failures], with the provider's
\* answer `up` for this body.
BodyStep(st, body, up) ==
    LET got == fetch_astronomical_events(up)
        st0 == [events_data |-> st.events_data, seen |-> st.seen,
                log |-> st.log, raised |-> FALSE]
        after == IF got.raised THEN [st0 EXCEPT !.raised = TRUE]
                 ELSE ProcessRows(st0, got.value, body)
    IN [events_data |-> after.events_data, seen |-> after.seen,
        log |-> after.log,
        successes |-> IF ~got.raised /\ got.value # <<>>
                      THEN st.successes + 1 ELSE st.successes,
        failures |-> IF after.raised THEN st.failures + 1 ELSE st.failures]

\* The loop over the first n bodies of `order`; answers[body] is what the
\* provider answers the query for that body.
RECURSIVE BodyLoop(_, _, _)
BodyLoop(order, answers, n) ==
    IF n = 0
    THEN [events_data |-> <<>>, seen |-> {}, log |-> <<>>, successes |-> 0,
          failures |-> 0]
    ELSE LET before == { BodyLoop(order, answers, n - 1) }
         IN CHOOSE after \in { BodyStep(st, order[n], answers[order[n]]) :
                                   st \in before } : TRUE

\* fetch_all_events after the loop has left the state st: the twilight
\* events are appended, then the call raises or sorts and returns.
Settle(st, twilight_events) ==
    LET merged == Extend(st.events_data, twilight_events)
    IN IF Escalates(st.successes, st.failures)
       THEN [outcome |-> "raised", value |-> <<>>, log |-> st.log]
       ELSE IF SortRaises(merged)
       THEN [outcome |-> "crashed", value |-> <<>>, log |-> st.log]
       ELSE [outcome |-> "returned", value |-> SortEvents(merged),
             log |-> st.log]

\* fetch_all_events with its body queries made in `order` (the code's order
\* is celestial_bodies): [outcome, value, log].
FetchAllEventsIn(order, answers, twilight_events) ==
    LET loop == { BodyLoop(order, answers, Len(order)) }
    IN CHOOSE r \in { Settle(st, twilight_events) : st \in loop } : TRUE

\* The roster with the bodies at positions i and i + 1 queried in the other
\* order.
Swapped(i) ==
    [n \in 1..Len(celestial_bodies) |->
        IF n = i THEN celestial_bodies[i + 1]
        ELSE IF n = i + 1 THEN celestial_bodies[i]
        ELSE celestial_bodies[n]]

\* Rows one body query is answered with, at most.
MaxRowsPerBody == 1

NoSuchBody ==
    [kind |-> "response", status |-> 404, json |-> "absent", rows |-> <<>>]

\* The same answers of the provider (two neighbours of the roster answer
\* anything, the others 404), aggregated in the code's order and with the two
\* neighbours queried in the other order.
CallFetchAllEventsReordered ==
    /\ call = NoCall
    /\ \E i \in 1..(Len(celestial_bodies) - 1),
          first \in PrimaryUpstream(MaxRowsPerBody),
          second \in PrimaryUpstream(MaxRowsPerBody) :
         LET answers == [b \in Elements(celestial_bodies) |->
                            IF b = celestial_bodies[i] THEN first
                            ELSE IF b = celestial_bodies[i + 1] THEN second
                            ELSE NoSuchBody]
         IN call' = [fn |-> "fetch_all_events", swapped |-> i,
                     answers |-> answers,
                     result |-> FetchAllEventsIn(celestial_bodies, answers,
                                                 <<>>),
                     reordered |-> FetchAllEventsIn(Swapped(i), answers,
                                                    <<>>)]
    /\ UNCHANGED aside

NextOrder == CallFetchAllEventsReordered

SpecOrder == Init /\ [][NextOrder]_vars

EventsBuilt(entries) ==
    { entries[i].event :
        i \in { n \in 1..Len(entries) :
                  entries[n].fate \in {"emitted", "duplicate"} } }

\* No two different events built share a dedupe key or a sort key.
NoTies(entries) ==
    \A a, b \in EventsBuilt(entries) :
        a # b => /\ DedupKey(a) # DedupKey(b)
                 /\ <<SortInstant(a), a.body>> # <<SortInstant(b), b.body>>

-----------------------------------------------------------------------------
(* utils.calculate_next_visibility, utils.get_celestial_bodies_with_visibility *)

\* Hours ahead of now at which a body may rise next.
MaxAhead == 2

\* str.lower() on the names of the bodies; a name of no roster body is here in
\* lower case already.
Lower(name) ==
    IF \E b \in Elements(celestial_bodies) : Capitalize(b) = name
    THEN CHOOSE b \in Elements(celestial_bodies) : Capitalize(b) = name
    ELSE name

\* The keys of body_map.
body_map == Elements(celestial_bodies)

\* What observer.next_rising(target_body) comes to: the next rising, later
\* than observer.date, or AlwaysUpError, NeverUpError or another exception.
EphemOutcomes ==
    { [kind |-> "rise", ahead |-> d] : d \in 1..MaxAhead }
    \cup { [kind |-> k, ahead |-> 0] :
             k \in {"always_up", "never_up", "error"} }

\* calculate_next_visibility(body_name) when the clock reads `now` at
\* observer.date = datetime.now() and `now + elapsed` at the datetime.now()
\* of the AlwaysUpError branch.
calculate_next_visibility(body_name, now, elapsed, eph) ==
    IF Lower(body_name) \notin body_map THEN None
    ELSE CASE eph.kind = "rise" -> Datetime(now + eph.ahead, 0, TRUE)
           [] eph.kind = "always_up" -> Datetime(now + elapsed, 0, TRUE)
           [] eph.kind = "never_up" -> None
           [] OTHER -> None

\* datetime.isoformat() of an aware datetime in UTC.
Isoformat(dt) == Iso(dt.wall, "+00:00")

\* datetime.max.replace(tzinfo=None): a naive datetime.
NaiveMax == Datetime(MaxWall, 0, FALSE)

\* x["nextVisible"] or datetime.max.replace(tzinfo=None)
VisibilityKey(x) == IF x.nextVisible # None THEN x.nextVisible ELSE NaiveMax

\* datetime.__lt__ raises TypeError between a naive and an aware datetime.
CompareRaises(a, b) == a.aware # b.aware

RECURSIVE InsertByVisibility(_, _)
InsertByVisibility(x, sorted) ==
    IF sorted = <<>> THEN <<x>>
    ELSE IF Instant(VisibilityKey(x)) < Instant(VisibilityKey(Head(sorted)))
    THEN <<x>> \o sorted
    ELSE <<Head(sorted)>> \o InsertByVisibility(x, Tail(sorted))

RECURSIVE SortByVisibility(_, _)
SortByVisibility(list, n) ==
    IF n = 0 THEN <<>>
    ELSE InsertByVisibility(list[n], SortByVisibility(list, n - 1))

\* get_celestial_bodies_with_visibility over the list `positions` of
\* fetch_celestial_body_positions: [raised, value].  A sort of two or more
\* keys compares an aware with a naive datetime as soon as both occur.
get_celestial_bodies_with_visibility(positions, now, eph) ==
    LET bodies == [i \in 1..Len(positions) |->
                      LET visibility ==
                              calculate_next_visibility(positions[i].name,
                                  now, 0, eph[positions[i].name])
                      IN [name |-> positions[i].name,
                          nextVisible |-> visibility,
                          nextVisibleStr |-> IF visibility # None
                                             THEN Isoformat(visibility)
                                             ELSE None]]
    IN IF \E i, j \in 1..Len(bodies) :
             CompareRaises(VisibilityKey(bodies[i]), VisibilityKey(bodies[j]))
       THEN [raised |-> TRUE, value |-> <<>>]
       ELSE [raised |-> FALSE, value |-> SortByVisibility(bodies, Len(bodies))]

\* Names calculate_next_visibility is called with.
BodyNames == {"Sun", "moon", "mars", "ceres"}

\* Readings of the clock.
Nows == 1..2

\* utils.calculate_next_visibility(body_name); `at` is the reading of the
\* clock when the call returns.
CallCalculateNextVisibility ==
    /\ call = NoCall
    /\ \E body_name \in BodyNames, now \in Nows, elapsed \in 0..1,
          eph \in EphemOutcomes :
         call' = [fn |-> "calculate_next_visibility", body |-> body_name,
                  eph |-> eph,
                  at |-> IF eph.kind = "always_up"
                            /\ Lower(body_name) \in body_map
                         THEN now + elapsed ELSE now,
                  result |-> calculate_next_visibility(body_name, now,
                                                       elapsed, eph)]
    /\ UNCHANGED aside

\* The bodies the catalog answers for, by englishName, in roster order.
CatalogNames == <<"Sun", "Moon", "Mars">>

\* The lists fetch_celestial_body_positions may return: a body is left out
\* when its GET did not give a 200.
PositionLists ==
    { [i \in 1..Len(kept) |-> [name |-> kept[i]]] :
        kept \in { SelectSeq(CatalogNames, LAMBDA n : n \in chosen) :
                     chosen \in SUBSET Elements(CatalogNames) } }

\* utils.get_celestial_bodies_with_visibility()
CallGetCelestialBodiesWithVisibility ==
    /\ call = NoCall
    /\ \E positions \in PositionLists, now \in Nows,
          eph \in [Elements(CatalogNames) -> EphemOutcomes] :
         call' = [fn |-> "get_celestial_bodies_with_visibility",
                  positions |-> positions, at |-> now,
                  eph |-> [n \in { positions[i].name :
                                     i \in 1..Len(positions) } |-> eph[n]],
                  result |-> get_celestial_bodies_with_visibility(
                                 positions, now, eph)]
    /\ UNCHANGED aside

NextVisibility ==
    \/ CallCalculateNextVisibility
    \/ CallGetCelestialBodiesWithVisibility

SpecVisibility == Init /\ [][NextVisibility]_vars

\* C26: calculate_next_visibility returns null or an instant later than the
\* moment of the call's return, never that moment or an earlier one; for a
\* body other than sun and moon it returns null.
C26_NullOrLaterAndSunMoonOnly ==
    Called("calculate_next_visibility") =>
        /\ call.result # None => Instant(call.result) > call.at
        /\ Lower(call.body) \notin {"sun", "moon"} => call.result = None

\* C27: whatever each body's visibility is, an instant or null,
\* get_celestial_bodies_with_visibility does not fail and returns the bodies
\* in ascending order of nextVisible, those without one last.
C27_SortedNullsLast ==
    Called("get_celestial_bodies_with_visibility") =>
        /\ ~call.result.raised
        /\ Len(call.result.value) = Len(call.positions)
        /\ \A i, j \in 1..Len(call.result.value) :
              LET a == call.result.value[i].nextVisible
                  b == call.result.value[j].nextVisible
              IN i < j =>
                   \/ b = None
                   \/ a # None /\ Instant(a) <= Instant(b)

-----------------------------------------------------------------------------
(* views.toggle_event_favorite under concurrent requests *)

\* Requests of toggle_event_favorite served in one behaviour, side by side or
\* one after another.
MaxInflight == 3

\* The requests sent: by either user for either event, by nobody logged in,
\* and without event_id.
ConcurrentRequests == { r \in ToggleRequests : r.text = "a" }

\* What a request of toggle_event_favorite leaves alone.
unserved == <<pc, idx, events_data, seen, successes, failures, outcome,
              rowsLeft, log, nonEmpty, raisedBodies, twilight, calls, mock,
              call, favorites, posts>>

\* No primary key: filter(...).first() found nothing.
NoRow == 0

\* A request arrives and a worker takes it.  The view has no lock and the
\* model no constraint, so the worker runs beside those still at work;
\* `alone` records that there was none.
BeginToggle(req) ==
    /\ Len(inflight) < MaxInflight
    /\ inflight' = Append(inflight,
                          [req |-> req, at |-> "filter", fav |-> NoRow,
                           alone |-> \A w \in 1..Len(inflight) :
                                        inflight[w].at = "done"])
    /\ UNCHANGED <<event_favorites, response>>
    /\ UNCHANGED unserved

\* Worker w up to and including
\* EventFavorite.objects.filter(user=..., event_id=...).first(): one SELECT.
\* The table keeps its rows in the order of their creation, which is the
\* order of their primary keys; `id` tells the rows apart.
FilterFirst(w) ==
    /\ w \in 1..Len(inflight)
    /\ inflight[w].at = "filter"
    /\ LET req == inflight[w].req
           found == Matching(event_favorites, req.user, req.key)
       IN IF req.user = AnonymousUser
          THEN /\ response' = [view |-> "toggle_event_favorite",
                                status |-> 401]
               /\ inflight' = [inflight EXCEPT ![w].at = "done"]
          ELSE IF req.key = Missing
          THEN /\ response' = [view |-> "toggle_event_favorite",
                                status |-> 400]
               /\ inflight' = [inflight EXCEPT ![w].at = "done"]
          ELSE /\ inflight' = [inflight EXCEPT
                                  ![w].at = "write",
                                  ![w].fav = IF found = {} THEN NoRow
                                             ELSE event_favorites[
                                                      First(found)].id]
               /\ UNCHANGED response
    /\ UNCHANGED event_favorites
    /\ UNCHANGED unserved

\* Worker w from `if fav:` on: fav.delete(), a DELETE by primary key that
\* removes nothing when the row is gone already, or
\* EventFavorite.objects.create(...), an INSERT of a row of its own (`id`
\* names the worker that created it, and no worker creates two).
DeleteOrCreate(w) ==
    /\ w \in 1..Len(inflight)
    /\ inflight[w].at = "write"
    /\ LET req == inflight[w].req
           fav == inflight[w].fav
           rows == { i \in 1..Len(event_favorites) :
                       event_favorites[i].id = fav }
       IN IF fav # NoRow
          THEN /\ event_favorites' =
                      IF rows = {} THEN event_favorites
                      ELSE DeleteRow(event_favorites, First(rows))
               /\ response' = [view |-> "toggle_event_favorite",
                                status |-> 200, favorited |-> FALSE]
          ELSE /\ event_favorites' =
                      Append(event_favorites,
                             [user |-> req.user, key |-> req.key,
                              body |-> req.text, id |-> w])
               /\ response' = [view |-> "toggle_event_favorite",
                                status |-> 200, favorited |-> TRUE]
    /\ inflight' = [inflight EXCEPT ![w].at = "done"]
    /\ UNCHANGED unserved

NextConcurrent ==
    \/ \E req \in ConcurrentRequests : BeginToggle(req)
    \/ \E w \in 1..MaxInflight : FilterFirst(w)
    \/ \E w \in 1..MaxInflight : DeleteOrCreate(w)

SpecConcurrent == Init /\ [][NextConcurrent]_vars

\* C30: whatever the interleaving of the requests, a user holds at most one
\* EventFavorite record for an event_id; and once a request that was served
\* with no other beside it has found the event favourited, the user holds no
\* record for it.
C30_AtMostOneRecordPerPair ==
    /\ \A u \in Users, k \in {"k1", "k2"} :
          Cardinality(Matching(event_favorites, u, k)) <= 1
    /\ \A w \in 1..Len(inflight) :
          (/\ w = Len(inflight)
           /\ inflight[w].alone
           /\ inflight[w].at = "done"
           /\ inflight[w].fav # NoRow) =>
              Matching(event_favorites, inflight[w].req.user,
                       inflight[w].req.key) = {}

=============================================================================
